---- MODULE Spec2Model ----
(***************************************************************************)
(* Model of map_rsid_to_grch38_coord_ensembl_api.py: the batched rsID ->   *)
(* GRCh38 resolver (read_rsids, chunks, normalize_chr,                     *)
(* post_variation_batch, parse_grch38_mappings, main).                     *)
(*                                                                         *)
(* Python strings are modelled as sequences of one-character strings, so   *)
(* that strip, startswith, lower, slicing, split, formatting and the       *)
(* lexicographic order of sorted() are computed character by character.    *)
(***************************************************************************)
EXTENDS Integers, Sequences, FiniteSets, TLC

(***************************************************************************)
(* Characters and strings                                                  *)
(***************************************************************************)

\* The characters the model uses, in ascending code point order.
CharOrder ==
    << "\t", "\n", " ", "/", "0", "1", "2", "3", "4", "5", "6", "7", "8", "9",
       ":", ";", "A", "C", "D", "G", "H", "M", "N", "R", "T", "X", "Y",
       "c", "h", "m", "r", "s", "t", "x" >>

Chars == { CharOrder[i] : i \in 1..Len(CharOrder) }

\* ord(c), up to an order-preserving renumbering.
Ord == [ c \in Chars |-> CHOOSE i \in 1..Len(CharOrder) : CharOrder[i] = c ]

\* str.lower() on one character.
LowerChar(c) ==
    CASE c = "A" -> "a" [] c = "C" -> "c" [] c = "D" -> "d" [] c = "G" -> "g"
      [] c = "H" -> "h" [] c = "M" -> "m" [] c = "N" -> "n" [] c = "R" -> "r"
      [] c = "T" -> "t" [] c = "X" -> "x" [] c = "Y" -> "y"
      [] OTHER -> c

\* s.lower()
Lower(s) == [ i \in 1..Len(s) |-> LowerChar(s[i]) ]

\* s.startswith(p)
StartsWith(s, p) == Len(s) >= Len(p) /\ SubSeq(s, 1, Len(p)) = p

\* s[k:] with k counted from 0 as in Python
From(s, k) == IF k >= Len(s) THEN << >> ELSE SubSeq(s, k + 1, Len(s))

\* The characters str.strip() removes.
Whitespace == { " ", "\t", "\n" }

RECURSIVE LStrip(_)
LStrip(s) ==
    IF s # << >> /\ s[1] \in Whitespace THEN LStrip(Tail(s)) ELSE s

RECURSIVE RStrip(_)
RStrip(s) ==
    IF s # << >> /\ s[Len(s)] \in Whitespace
    THEN RStrip(SubSeq(s, 1, Len(s) - 1)) ELSE s

\* s.strip()
Strip(s) == RStrip(LStrip(s))

\* a < b for Python strings: lexicographic over code points.
RECURSIVE StrLess(_, _)
StrLess(a, b) ==
    IF a = << >> THEN b # << >>
    ELSE IF b = << >> THEN FALSE
    ELSE IF a[1] = b[1] THEN StrLess(Tail(a), Tail(b))
    ELSE Ord[a[1]] < Ord[b[1]]

\* One decimal digit as a character.
Digit(d) == CharOrder[Ord["0"] + d]

\* str(n) / "{n}" for a non-negative integer.
RECURSIVE IntStr(_)
IntStr(n) ==
    IF n < 10 THEN << Digit(n) >> ELSE IntStr(n \div 10) \o << Digit(n % 10) >>

\* s.split(sep) for a one-character separator.
RECURSIVE SplitFrom(_, _, _)
SplitFrom(s, sep, cur) ==
    IF s = << >> THEN << cur >>
    ELSE IF s[1] = sep THEN << cur >> \o SplitFrom(Tail(s), sep, << >>)
    ELSE SplitFrom(Tail(s), sep, Append(cur, s[1]))

Split(s, sep) == SplitFrom(s, sep, << >>)

\* sep.join(parts)
RECURSIVE Join(_, _)
Join(sep, parts) ==
    IF parts = << >> THEN << >>
    ELSE IF Len(parts) = 1 THEN parts[1]
    ELSE parts[1] \o sep \o Join(sep, Tail(parts))

\* sorted(S) for a finite set S of strings.
RECURSIVE SortedStrs(_)
SortedStrs(S) ==
    IF S = {} THEN << >>
    ELSE LET m == CHOOSE x \in S : \A y \in S \ {x} : StrLess(x, y)
         IN << m >> \o SortedStrs(S \ {m})

(***************************************************************************)
(* Pure functions of the program                                           *)
(***************************************************************************)

\* The canonical identifier prefix.
RS == << "r", "s" >>

\* read_rsids: the loop over the lines of the file, with its seen set.
RECURSIVE ReadLoop(_, _, _)
ReadLoop(lines, seen, out) ==
    IF lines = << >> THEN out
    ELSE LET s0 == Strip(lines[1])
             s  == IF StartsWith(s0, RS) THEN s0 ELSE RS \o s0
         IN IF s0 = << >> THEN ReadLoop(Tail(lines), seen, out)
            ELSE IF s \in seen THEN ReadLoop(Tail(lines), seen, out)
            ELSE ReadLoop(Tail(lines), seen \cup {s}, Append(out, s))

read_rsids(lines) == ReadLoop(lines, {}, << >>)

\* min(a, b)
Min(a, b) == IF a <= b THEN a ELSE b

\* chunks(seq, n): the slices seq[i:i+n] for i in range(0, len(seq), n).
chunks(seq, n) ==
    [ k \in 1..((Len(seq) + n - 1) \div n) |->
        SubSeq(seq, (k - 1) * n + 1, Min(k * n, Len(seq))) ]

\* The literals of normalize_chr.
CHR == << "c", "h", "r" >>
MitoNames ==
    { << "M" >>, << "M", "T" >>, << "M", "t", "D", "N", "A" >>,
      << "m", "t" >>, << "M", "T", "D", "N", "A" >> }

\* normalize_chr
normalize_chr(chrom) ==
    LET c == IF StartsWith(Lower(chrom), CHR) THEN From(chrom, 3) ELSE chrom
    IN IF c \in MitoNames THEN << "M" >> ELSE c

\* An optional value (dict.get without the key gives None): << >> or << v >>.
None == << >>
Some(v) == << v >>

\* "not x" for an optional string, and for an optional integer.
FalsyStr(o) == o = None \/ o[1] = << >>
FalsyInt(o) == o = None \/ o[1] = 0

\* Mutant of MappingTuples: a descriptor without alternate yields nothing
\* instead of the self-pair.
MappingTuples_NoSelfPair(m) ==
    IF m.assembly_name # "GRCh38" THEN {}
    ELSE IF FalsyStr(m.seq_region_name) \/ FalsyInt(m.start)
            \/ FalsyStr(m.allele_string) THEN {}
    ELSE LET chrom   == normalize_chr(m.seq_region_name[1])
             pos     == m.start[1]
             alleles == Split(m.allele_string[1], "/")
             ref     == alleles[1]
             alts    == IF Len(alleles) > 1 THEN Tail(alleles) ELSE << >>
         IN { << chrom, pos, ref, alts[i] >> : i \in 1..Len(alts) }

\* The tuples one mapping of an entry contributes (the body of the for loop).
MappingTuples(m) ==
    IF m.assembly_name # "GRCh38" THEN {}
    ELSE IF FalsyStr(m.seq_region_name) \/ FalsyInt(m.start)
            \/ FalsyStr(m.allele_string) THEN {}
    ELSE LET chrom   == normalize_chr(m.seq_region_name[1])
             pos     == m.start[1]
             alleles == Split(m.allele_string[1], "/")
             ref     == alleles[1]
             alts    == IF Len(alleles) > 1 THEN Tail(alleles) ELSE << >>
         IN IF alts = << >> THEN { << chrom, pos, ref, ref >> }
            ELSE { << chrom, pos, ref, alts[i] >> : i \in 1..Len(alts) }

\* a < b for (CHR, POS, REF, ALT) tuples, as Python compares tuples.
TupleLess(a, b) ==
    IF a[1] # b[1] THEN StrLess(a[1], b[1])
    ELSE IF a[2] # b[2] THEN a[2] < b[2]
    ELSE IF a[3] # b[3] THEN StrLess(a[3], b[3])
    ELSE StrLess(a[4], b[4])

\* sorted(S) for a finite set S of tuples.
RECURSIVE SortedTuples(_)
SortedTuples(S) ==
    IF S = {} THEN << >>
    ELSE LET m == CHOOSE x \in S : \A y \in S \ {x} : TupleLess(x, y)
         IN << m >> \o SortedTuples(S \ {m})

\* The tuples of one mapping in the order the for loop appends them.
MappingList(m) ==
    IF MappingTuples(m) = {} THEN << >>
    ELSE LET chrom   == normalize_chr(m.seq_region_name[1])
             alleles == Split(m.allele_string[1], "/")
         IN IF Len(alleles) = 1
            THEN << << chrom, m.start[1], alleles[1], alleles[1] >> >>
            ELSE [ i \in 1..(Len(alleles) - 1) |->
                     << chrom, m.start[1], alleles[1], alleles[i + 1] >> ]

RECURSIVE FirstSeen(_, _)
FirstSeen(ts, seen) ==
    IF ts = << >> THEN << >>
    ELSE IF ts[1] \in seen THEN FirstSeen(Tail(ts), seen)
    ELSE << ts[1] >> \o FirstSeen(Tail(ts), seen \cup { ts[1] })

RECURSIVE AllTuples(_)
AllTuples(mappings) ==
    IF mappings = << >> THEN << >>
    ELSE MappingList(mappings[1]) \o AllTuples(Tail(mappings))

\* Mutant of parse_grch38_mappings: duplicates are dropped but the list is
\* left in the order of the response instead of being sorted.
parse_grch38_mappings_Unsorted(mappings) == FirstSeen(AllTuples(mappings), {})

\* parse_grch38_mappings, for the list of mappings entry.get("mappings", []).
parse_grch38_mappings(mappings) ==
    SortedTuples(UNION { MappingTuples(mappings[i]) : i \in 1..Len(mappings) })

TAB == << "\t" >>
COLON == << ":" >>

\* f"{chrom}:{pos}:{ref}:{alt}"
IdRow(t) == t[1] \o COLON \o IntStr(t[2]) \o COLON \o t[3] \o COLON \o t[4]

\* f"{rs_id}\t{chrom}\t{pos}\t{ref}\t{alt}"
CoordRow(rs, t) ==
    rs \o TAB \o t[1] \o TAB \o IntStr(t[2]) \o TAB \o t[3] \o TAB \o t[4]

\* f"{chrom}\t{pos}\t{pos}\t{rs_id}"
RangeRow(rs, t) ==
    t[1] \o TAB \o IntStr(t[2]) \o TAB \o IntStr(t[2]) \o TAB \o rs

\* f"{rs_id}\t{len(mappings)}\t{joined}"
AmbigRow(rs, ts) ==
    rs \o TAB \o IntStr(Len(ts)) \o TAB
       \o Join(<< ";" >>, [ i \in 1..Len(ts) |-> IdRow(ts[i]) ])

(***************************************************************************)
(* The remote service and the inputs of a run                              *)
(***************************************************************************)

\* One element of an entry's "mappings" list.
Mapping(asm, chrom, start, alleles) ==
    [ assembly_name |-> asm, seq_region_name |-> chrom,
      start |-> start, allele_string |-> alleles ]

\* What data.get(rs_id) can be: None ("absent"), an empty object ("empty"),
\* an object with an "error" key ("error"), an object with mappings ("entry").
Entry(kind, mappings) == [ kind |-> kind, mappings |-> mappings ]

\* "not entry or ('error' in entry)"
Unusable(entry) == entry.kind \in { "absent", "empty", "error" }

\* The orders in which the service may list the elements of a sequence.
Perms(seq) ==
    { [ i \in 1..Len(seq) |-> seq[p[i]] ] :
        p \in { q \in [ 1..Len(seq) -> 1..Len(seq) ] :
                  \A i, j \in 1..Len(seq) : i # j => q[i] # q[j] } }

\* The response bodies for a batch: each identifier's entry of the service,
\* its mappings listed in any order.
Responses(ids, db) ==
    { d \in [ { ids[i] : i \in 1..Len(ids) } ->
                UNION { { Entry(db[ids[i]].kind, m) :
                            m \in Perms(db[ids[i]].mappings) } :
                        i \in 1..Len(ids) } ] :
        \A i \in 1..Len(ids) :
            /\ d[ids[i]].kind = db[ids[i]].kind
            /\ d[ids[i]].mappings \in Perms(db[ids[i]].mappings) }

\* Bounds of the model.
MaxLines == 2
MaxBatch == 2
MaxQuiet == 1

\* The default of max_retries.
DefaultMaxRetries == 5

\* Lines of the input file: "rs1\n", "1\n", " 2 \n", "\n".
RawLines ==
    { << "r", "s", "1", "\n" >>, << "1", "\n" >>,
      << " ", "2", " ", "\n" >>, << "\n" >> }

InputFiles == UNION { [ 1..n -> RawLines ] : n \in 0..MaxLines }

StrA == << "A" >>
StrAG == << "A", "/", "G" >>
StrAGT == << "A", "/", "G", "/", "T" >>
StrC == << "C" >>
Chr7 == << "c", "h", "r", "7" >>
StrMT == << "M", "T" >>

\* Entries of the service in the runs: absent, error, no GRCh38 mapping, one
\* mapping, and two mappings (three tuples) whose order the service chooses.
RunEntries ==
    { Entry("absent", << >>),
      Entry("error", << >>),
      Entry("entry", << Mapping("GRCh37", Some(Chr7), Some(5), Some(StrAG)) >>),
      Entry("entry", << Mapping("GRCh38", Some(Chr7), Some(5), Some(StrAG)) >>),
      Entry("entry", << Mapping("GRCh38", Some(Chr7), Some(12), Some(StrAGT)),
                        Mapping("GRCh38", Some(StrMT), Some(5), Some(StrC)) >>) }

\* The HTTP statuses the service answers with.
Statuses == { 200, 204, 304, 404, 429, 500, 501, 502, 503, 504 }

\* requests.Response.raise_for_status raises for 4xx and 5xx statuses only.
RaisesForStatus(status) == 400 <= status /\ status < 600

\* The statuses post_variation_batch retries on.
RetryStatuses == { 429, 500, 502, 503, 504 }

\* The floor of a signalled delay (0.25 s), the seed (0.25 s) and the cap
\* (10.0 s) of the exponential delay, in milliseconds.
MinSignalledMs == 250
SeedMs == 250
CapMs == 10000

\* max(a, b)
Max(a, b) == IF a >= b THEN a ELSE b

\* The value of a decimal digit, and float(s) for a string of digits.
DigitValue(c) == Ord[c] - Ord["0"]

RECURSIVE FloatOf(_)
FloatOf(s) ==
    IF s = << >> THEN 0
    ELSE 10 * FloatOf(SubSeq(s, 1, Len(s) - 1)) + DigitValue(s[Len(s)])

\* The Retry-After headers of the failing responses: none, "", "0", "30".
RetryAfterHeaders ==
    { None, Some(<< >>), Some(<< "0" >>), Some(<< "3", "0" >>) }

\* Line 103: float(ra) if ra else None
RetryAfterArg(ra) ==
    IF ra = None \/ ra[1] = << >> THEN None ELSE Some(FloatOf(ra[1]))

\* Mutant of BackoffDelay: the exponential delay grows by the seed for
\* each attempt instead of doubling.
BackoffDelay_Linear(att, ra) ==
    IF ra # None
    THEN Max(MinSignalledMs, 1000 * ra[1])
    ELSE Min(CapMs, SeedMs * 2 * att)

\* backoff_sleep: the time slept, in milliseconds, for retry_after in seconds.
BackoffDelay(att, ra) ==
    IF ra # None
    THEN Max(MinSignalledMs, 1000 * ra[1])
    ELSE Min(CapMs, SeedMs * (2 ^ att))

(***************************************************************************)
(* State                                                                   *)
(***************************************************************************)

VARIABLES
    lines,        \* the lines of the --rsids file
    batch,        \* args.batch
    service,      \* the service's entry for each identifier
    run,          \* 1 for the first invocation of the program, 2 for the second
    pc,           \* where main is
    rsids,        \* main: rsids
    batchIdx,     \* index of the chunk the for loop of main is on
    attempt,      \* post_variation_batch: attempt
    nreq,         \* session.post calls made for the current batch
    nsleep,       \* backoff_sleep calls made for the current batch
    nquiet,       \* responses of the current batch that fell through line 106
    retry_after,  \* backoff_sleep: retry_after, in seconds, at the last sleep
                  \* of the call in progress (None when it has not slept)
    delay,        \* backoff_sleep: delay, in milliseconds, of that sleep (0
                  \* when the call has not slept)
    signalled,    \* ghost: a sleep of the call in progress was given a
                  \* retry_after
    raised,       \* the exception that ended the run, "" if none
    raisedStatus, \* the status of the response it was raised for, 0 if none
    sent,         \* the payloads requested so far, one per batch
    nfold,        \* responses folded into the row sets so far
    found, missing, id_rows, coord_rows, range_rows, ambig_rows,
    mappings,     \* main: mappings, the list the last call of
                  \* parse_grch38_mappings returned (<< >> before the first)
    outdir,       \* the files of --outdir, as [name, text] records
    prevdir       \* the files the first invocation left

scenario == << lines, batch, service >>
client == << attempt, nreq, nsleep, nquiet, retry_after, delay, signalled >>
rows == << found, missing, id_rows, coord_rows, range_rows, ambig_rows,
          mappings >>
vars == << lines, batch, service, run, pc, rsids, batchIdx, attempt, nreq,
           nsleep, nquiet, retry_after, delay, signalled,
           raised, raisedStatus, sent, nfold, found, missing,
           id_rows, coord_rows, range_rows, ambig_rows, mappings, outdir,
           prevdir >>

\* The state of one invocation before main reads its input.
Fresh ==
    /\ pc = "start"
    /\ rsids = << >>
    /\ batchIdx = 1
    /\ attempt = 0 /\ nreq = 0 /\ nsleep = 0 /\ nquiet = 0
    /\ retry_after = None /\ delay = 0 /\ signalled = FALSE
    /\ raised = "" /\ raisedStatus = 0
    /\ sent = << >>
    /\ nfold = 0
    /\ found = {} /\ missing = {} /\ id_rows = {}
    /\ coord_rows = {} /\ range_rows = {} /\ ambig_rows = {}
    /\ mappings = << >>
    /\ outdir = {}

\* The identifiers a file of lines names.
IdsOf(ls) == { read_rsids(ls)[i] : i \in 1..Len(read_rsids(ls)) }

Init ==
    /\ lines \in InputFiles
    /\ batch \in 1..MaxBatch
    /\ service \in [ IdsOf(lines) -> RunEntries ]
    /\ run = 1
    /\ prevdir = {}
    /\ Fresh

\* The chunks of the run and the one the loop is on.
Batches == chunks(rsids, batch)
batch_rsids == Batches[batchIdx]

(***************************************************************************)
(* main, up to the batch loop (lines 147-162)                              *)
(***************************************************************************)
Start ==
    /\ pc = "start"
    /\ rsids' = read_rsids(lines)
    /\ pc' = IF read_rsids(lines) = << >> THEN "exit" ELSE "post"
    /\ raised' = IF read_rsids(lines) = << >> THEN "SystemExit" ELSE ""
    /\ UNCHANGED << scenario, run, batchIdx, client, raisedStatus, sent, nfold,
                    rows, outdir, prevdir >>

(***************************************************************************)
(* post_variation_batch: one iteration of its while loop per action        *)
(***************************************************************************)

\* session.post is called with the payload of the current batch.
Request(counted) ==
    /\ nreq' = IF counted THEN nreq + 1 ELSE nreq
    /\ sent' = IF Len(sent) < batchIdx THEN Append(sent, batch_rsids) ELSE sent

\* Mutant of Raise: the failure is recorded and the batch is skipped, the
\* loop going on as if an empty response had been returned.
Raise_Swallowed(exc, status) ==
    /\ pc' = "returned"
    /\ raised' = exc
    /\ raisedStatus' = status
    /\ UNCHANGED << attempt, nsleep, nquiet >>

\* The exception leaves post_variation_batch and main.
Raise(exc, status) ==
    /\ pc' = "aborted"
    /\ raised' = exc
    /\ raisedStatus' = status
    /\ UNCHANGED << attempt, nsleep, nquiet >>

\* backoff_sleep(att, ra) is called and sleeps.
backoff_sleep(att, ra) ==
    /\ retry_after' = ra
    /\ delay' = BackoffDelay(att, ra)
    /\ signalled' = (signalled \/ ra # None)

\* post_variation_batch is left: its last sleep is no longer of interest.
CallOver ==
    /\ retry_after' = None
    /\ delay' = 0
    /\ signalled' = FALSE

\* Mutant of Retry: the request is sent again without the backoff sleep.
Retry_NoSleep ==
    /\ attempt' = attempt + 1
    /\ nsleep' = nsleep
    /\ UNCHANGED << pc, raised, raisedStatus, nquiet >>

\* attempt += 1; backoff_sleep(attempt, ...); continue
Retry ==
    /\ attempt' = attempt + 1
    /\ nsleep' = nsleep + 1
    /\ UNCHANGED << pc, raised, raisedStatus, nquiet >>

\* Mutant of PostException: the ceiling is tested with > instead of >=.
PostException_OffByOne ==
    /\ pc = "post"
    /\ Request(TRUE)
    /\ IF attempt > DefaultMaxRetries
       THEN Raise("RequestException", 0) /\ CallOver
       ELSE Retry /\ backoff_sleep(attempt + 1, None)
    /\ UNCHANGED << scenario, run, rsids, batchIdx, nfold, rows, outdir, prevdir >>

\* Lines 86-93: session.post raises requests.RequestException.
PostException ==
    /\ pc = "post"
    /\ Request(TRUE)
    /\ IF attempt >= DefaultMaxRetries
       THEN Raise("RequestException", 0) /\ CallOver
       ELSE Retry /\ backoff_sleep(attempt + 1, None)
    /\ UNCHANGED << scenario, run, rsids, batchIdx, nfold, rows, outdir, prevdir >>

\* Lines 95-96: the response has status 200; its body is returned.
PostOK ==
    /\ pc = "post"
    /\ Request(TRUE)
    /\ pc' = "returned"
    /\ CallOver
    /\ UNCHANGED << scenario, run, rsids, batchIdx, attempt, nsleep, nquiet,
                    raised, raisedStatus, nfold, rows, outdir, prevdir >>

\* Lines 98-104: the response has one of the statuses retried on.
PostRetryStatus ==
    /\ pc = "post"
    /\ \E status \in Statuses \cap RetryStatuses, ra \in RetryAfterHeaders :
         /\ Request(TRUE)
         /\ IF attempt >= DefaultMaxRetries /\ RaisesForStatus(status)
            THEN Raise("HTTPError", status) /\ CallOver
            ELSE Retry /\ backoff_sleep(attempt + 1, RetryAfterArg(ra))
    /\ UNCHANGED << scenario, run, rsids, batchIdx, nfold, rows, outdir, prevdir >>

\* Line 106: any other status; raise_for_status raises or returns, and when
\* it returns the while loop starts its next iteration.  The loop can pass
\* here any number of times: nquiet and nreq count the first MaxQuiet passes
\* of a batch and stay as they are for the later ones.
PostOtherStatus ==
    /\ pc = "post"
    /\ \E status \in Statuses \ (RetryStatuses \cup { 200 }) :
         IF RaisesForStatus(status)
         THEN /\ Request(TRUE)
              /\ Raise("HTTPError", status)
              /\ CallOver
         ELSE /\ Request(nquiet < MaxQuiet)
              /\ nquiet' = IF nquiet < MaxQuiet THEN nquiet + 1 ELSE nquiet
              /\ pc' = "again"
              /\ UNCHANGED << attempt, nsleep, raised, raisedStatus,
                              retry_after, delay, signalled >>
    /\ UNCHANGED << scenario, run, rsids, batchIdx, nfold, rows, outdir, prevdir >>

\* Line 85: back at the head of the while loop after line 106 returned.
LoopAgain ==
    /\ pc = "again"
    /\ pc' = "post"
    /\ UNCHANGED << scenario, run, rsids, batchIdx, client, raised,
                    raisedStatus, sent, nfold, rows, outdir, prevdir >>

(***************************************************************************)
(* main: the body of the batch loop after the response (lines 169-196)     *)
(***************************************************************************)

\* Mutant of FoldId: found.add(rs_id) is done before the test for an empty
\* list of mappings.
FoldId_FoundFirst(st, rs_id, entry) ==
    IF Unusable(entry)
    THEN [ st EXCEPT !.missing = @ \cup { rs_id } ]
    ELSE LET parsed   == parse_grch38_mappings(entry.mappings)
             each     == { parsed[i] : i \in 1..Len(parsed) }
         IN [ st EXCEPT
                !.found      = @ \cup { rs_id },
                !.missing    = IF parsed = << >> THEN @ \cup { rs_id } ELSE @,
                !.coord_rows = @ \cup { CoordRow(rs_id, t) : t \in each },
                !.id_rows    = @ \cup { IdRow(t) : t \in each },
                !.range_rows = @ \cup { RangeRow(rs_id, t) : t \in each },
                !.ambig_rows = IF Len(parsed) > 1
                               THEN @ \cup { AmbigRow(rs_id, parsed) }
                               ELSE @,
                !.mappings   = parsed ]

\* Mutant of FoldId: an identifier without a usable entry is not added to
\* missing in the loop, but left to the difference taken after it.
FoldId_MissingAtEnd(st, rs_id, entry) ==
    IF Unusable(entry)
    THEN st
    ELSE LET parsed   == parse_grch38_mappings(entry.mappings)
             each     == { parsed[i] : i \in 1..Len(parsed) }
         IN IF parsed = << >>
            THEN [ st EXCEPT !.mappings = parsed ]
            ELSE [ st EXCEPT
                     !.coord_rows = @ \cup { CoordRow(rs_id, t) : t \in each },
                     !.id_rows    = @ \cup { IdRow(t) : t \in each },
                     !.range_rows = @ \cup { RangeRow(rs_id, t) : t \in each },
                     !.found      = @ \cup { rs_id },
                     !.ambig_rows = IF Len(parsed) > 1
                                    THEN @ \cup { AmbigRow(rs_id, parsed) }
                                    ELSE @,
                     !.mappings   = parsed ]

\* Lines 170-194 for one identifier; st holds the six sets and mappings.
FoldId(st, rs_id, entry) ==
    IF Unusable(entry)
    THEN [ st EXCEPT !.missing = @ \cup { rs_id } ]
    ELSE LET parsed   == parse_grch38_mappings(entry.mappings)
             each     == { parsed[i] : i \in 1..Len(parsed) }
         IN IF parsed = << >>
            THEN [ st EXCEPT !.missing = @ \cup { rs_id },
                             !.mappings = parsed ]
            ELSE [ st EXCEPT
                     !.coord_rows = @ \cup { CoordRow(rs_id, t) : t \in each },
                     !.id_rows    = @ \cup { IdRow(t) : t \in each },
                     !.range_rows = @ \cup { RangeRow(rs_id, t) : t \in each },
                     !.found      = @ \cup { rs_id },
                     !.ambig_rows = IF Len(parsed) > 1
                                    THEN @ \cup { AmbigRow(rs_id, parsed) }
                                    ELSE @,
                     !.mappings   = parsed ]

\* The for loop of line 169 over the identifiers of the batch.
RECURSIVE FoldBatch(_, _, _)
FoldBatch(st, ids, data) ==
    IF ids = << >> THEN st
    ELSE FoldBatch(FoldId(st, ids[1], data[ids[1]]), Tail(ids), data)

RowSets ==
    [ found |-> found, missing |-> missing, id_rows |-> id_rows,
      coord_rows |-> coord_rows, range_rows |-> range_rows,
      ambig_rows |-> ambig_rows, mappings |-> mappings ]

\* The response of the batch is folded into the sets; then the loop goes to
\* the next batch (a new call of post_variation_batch, attempt = 0) or ends.
Fold ==
    /\ pc = "returned"
    /\ \E data \in Responses(batch_rsids, service) :
         LET st == FoldBatch(RowSets, batch_rsids, data)
         IN /\ found' = st.found
            /\ missing' = st.missing
            /\ id_rows' = st.id_rows
            /\ coord_rows' = st.coord_rows
            /\ range_rows' = st.range_rows
            /\ ambig_rows' = st.ambig_rows
            /\ mappings' = st.mappings
    /\ nfold' = nfold + 1
    /\ batchIdx' = batchIdx + 1
    /\ pc' = IF batchIdx = Len(Batches) THEN "finish" ELSE "post"
    /\ attempt' = 0 /\ nreq' = 0 /\ nsleep' = 0 /\ nquiet' = 0
    /\ retry_after' = None /\ delay' = 0 /\ signalled' = FALSE
    /\ UNCHANGED << scenario, run, rsids, raised, raisedStatus, sent, outdir,
                    prevdir >>

(***************************************************************************)
(* main: after the loop (lines 198-246)                                    *)
(***************************************************************************)

NL == << "\n" >>

\* The text "for row in sorted(S): f.write(row + '\n')" leaves in a file.
RECURSIVE Written(_)
Written(sortedRows) ==
    IF sortedRows = << >> THEN << >>
    ELSE sortedRows[1] \o NL \o Written(Tail(sortedRows))

FileOf(name, S) == [ name |-> name, text |-> Written(SortedStrs(S)) ]

\* Line 199.
FinalMissing == missing \cup ({ rsids[i] : i \in 1..Len(rsids) } \ found)

Finish ==
    /\ pc = "finish"
    /\ missing' = FinalMissing
    /\ outdir' = { [ name |-> "README.txt", text |-> << "readme_txt" >> ],
                   FileOf("rsid_to_coord.tsv", coord_rows),
                   FileOf("ids_to_extract.txt", id_rows),
                   FileOf("rsid.range", range_rows),
                   FileOf("missing_rsids.txt", FinalMissing),
                   FileOf("ambiguous_rsids.tsv", ambig_rows) }
    /\ pc' = "done"
    /\ UNCHANGED << scenario, run, rsids, batchIdx, client, raised,
                    raisedStatus, sent, nfold, found, id_rows, coord_rows,
                    range_rows, ambig_rows, mappings, prevdir >>

\* The program is run a second time on the same input file, against the same
\* service; the files of the first invocation are kept for comparison.
RunAgain ==
    /\ pc = "done"
    /\ run = 1
    /\ run' = 2
    /\ prevdir' = outdir
    /\ pc' = "start"
    /\ rsids' = << >>
    /\ batchIdx' = 1
    /\ attempt' = 0 /\ nreq' = 0 /\ nsleep' = 0 /\ nquiet' = 0
    /\ retry_after' = None /\ delay' = 0 /\ signalled' = FALSE
    /\ raised' = "" /\ raisedStatus' = 0
    /\ sent' = << >>
    /\ nfold' = 0
    /\ found' = {} /\ missing' = {} /\ id_rows' = {}
    /\ coord_rows' = {} /\ range_rows' = {} /\ ambig_rows' = {}
    /\ mappings' = << >>
    /\ outdir' = {}
    /\ UNCHANGED scenario

Next ==
    \/ Start
    \/ PostException
    \/ PostOK
    \/ PostRetryStatus
    \/ PostOtherStatus
    \/ LoopAgain
    \/ Fold
    \/ Finish
    \/ RunAgain

Spec == Init /\ [][Next]_vars

\* Inside post_variation_batch the single thread keeps running: a request
\* that can be sent is sent and answered, and the while loop goes on to its
\* next iteration.
Post == PostException \/ PostOK \/ PostRetryStatus \/ PostOtherStatus
FairSpec == Spec /\ WF_vars(Post) /\ WF_vars(LoopAgain)

(***************************************************************************)
(* Properties                                                              *)
(***************************************************************************)

Requested == { rsids[i] : i \in 1..Len(rsids) }

\* The identifiers of the batches folded so far.
IdsFolded == { rsids[i] : i \in 1..Min(nfold * batch, Len(rsids)) }

\* The GRCh38 tuples the service holds for an identifier.
TuplesOf(rs_id) ==
    IF Unusable(service[rs_id]) THEN {}
    ELSE UNION { MappingTuples(service[rs_id].mappings[i]) :
                   i \in 1..Len(service[rs_id].mappings) }

Running == pc \in { "post", "again", "returned", "finish", "aborted" }

\* C1: after a run that completed all batches, found and missing are
\* disjoint and their union is the set of identifiers of the normalized
\* input list.
C1_Partition ==
    pc = "done" =>
        /\ found \cap missing = {}
        /\ found \cup missing = IdsOf(lines)

C1_Witness ==
    /\ pc = "done"
    /\ found # {}
    /\ missing # {}
    /\ Len(Batches) = 2

\* C2 as stated: in every state before the last batch's response has been
\* folded, the missing set is empty.
C2_MissingEmptyUntilEnd ==
    (pc \in { "start", "post", "again", "returned", "aborted" }) => missing = {}

\* C2 amended: missing is filled batch by batch; while the loop runs it holds
\* exactly the identifiers of the batches folded so far that are not in
\* found, and after the loop it is requested minus found.
C2_MissingPerBatch ==
    /\ Running => missing = IdsFolded \ found
    /\ pc = "done" => missing = Requested \ found

C2_Witness ==
    /\ pc = "post"
    /\ batchIdx = 2
    /\ missing # {}

\* C3: a response whose status is neither 200 nor a retried status makes
\* post_variation_batch raise at once: no such response is ever passed over
\* to send the batch again.
C3_OtherStatusRaises == nquiet = 0 /\ pc # "again"

\* C4: every call of post_variation_batch eventually returns or raises.
C4_CallTerminates == (pc = "post") ~> (pc \in { "returned", "aborted" })

\* A failure that is retried on: a network error or a retried status.
TransientRaise ==
    raised = "RequestException"
        \/ (raised = "HTTPError" /\ raisedStatus \in RetryStatuses)

\* C5 as stated: with every request failing transiently the call gives up
\* once 5 failures have occurred: it never sends a request after 5 failures,
\* and it has failed 5 times when it gives up.
C5_GivesUpAtFive ==
    /\ (pc = "post" /\ nquiet = 0) => nreq < DefaultMaxRetries
    /\ (pc = "aborted" /\ nquiet = 0 /\ TransientRaise)
           => nreq = DefaultMaxRetries

\* C5 amended: with every request failing transiently the call gives up at
\* failure number max_retries + 1 = 6, after 5 retries with one backoff sleep
\* before each of them; each batch starts with the counter at zero.
C5_GivesUpAtSix ==
    /\ (pc = "post" /\ nquiet = 0)
           => nreq <= DefaultMaxRetries /\ nsleep = nreq /\ attempt = nreq
    /\ (pc = "aborted" /\ nquiet = 0 /\ TransientRaise)
           => nreq = DefaultMaxRetries + 1 /\ nsleep = DefaultMaxRetries

C5_Witness ==
    /\ pc = "aborted"
    /\ TransientRaise
    /\ nquiet = 0
    /\ batchIdx = 2

\* C6: a response with status 429 or any 5xx status is retried on as long
\* as the retry ceiling has not been reached: the call raises for such a
\* status only at the ceiling.
C6_All5xxRetried ==
    (pc = "aborted" /\ raised = "HTTPError"
        /\ (raisedStatus = 429 \/ raisedStatus \in 500..599))
      => attempt >= DefaultMaxRetries

\* The row sets as they are when the batches folded so far each succeeded
\* at the first request.
ExpFound == { rs_id \in IdsFolded : TuplesOf(rs_id) # {} }
ExpCoordRows ==
    UNION { { CoordRow(rs_id, t) : t \in TuplesOf(rs_id) } : rs_id \in ExpFound }
ExpIdRows ==
    UNION { { IdRow(t) : t \in TuplesOf(rs_id) } : rs_id \in ExpFound }
ExpRangeRows ==
    UNION { { RangeRow(rs_id, t) : t \in TuplesOf(rs_id) } : rs_id \in ExpFound }
ExpAmbigRows ==
    { AmbigRow(rs_id, SortedTuples(TuplesOf(rs_id))) :
        rs_id \in { r \in ExpFound : Cardinality(TuplesOf(r)) > 1 } }

\* C7: when k transient failures are followed by a success, the call has
\* slept k times and sent k + 1 requests; every returned response is folded
\* exactly once, and the row sets, found and missing are those of a run
\* whose batches each succeeded at the first request.
C7_RetriesLeaveNoTrace ==
    /\ (pc = "returned" /\ nquiet = 0)
           => nsleep = nreq - 1 /\ nreq - 1 <= DefaultMaxRetries
    /\ Running => nfold = batchIdx - 1
    /\ (Running \/ pc = "done") =>
           /\ found = ExpFound
           /\ coord_rows = ExpCoordRows
           /\ id_rows = ExpIdRows
           /\ range_rows = ExpRangeRows
           /\ ambig_rows = ExpAmbigRows
    /\ pc = "done" => missing = Requested \ ExpFound

C7_Witness ==
    /\ pc = "returned"
    /\ nquiet = 0
    /\ nsleep = 3
    /\ nreq = 4
    /\ batchIdx = 2
    /\ coord_rows # {}

RECURSIVE Concat(_)
Concat(ss) == IF ss = << >> THEN << >> ELSE ss[1] \o Concat(Tail(ss))

\* C8: after a fatal service error nothing more happens: no later batch is
\* requested and no output file exists; output files exist only when every
\* batch returned; batches are requested one after another in input order.
C8_AbortIsTotal ==
    /\ [](pc = "aborted" => outdir = {} /\ Len(sent) = batchIdx)
    /\ [][pc # "aborted"]_vars
    /\ [](outdir # {} => raised = "" /\ nfold = Len(Batches))
    /\ [](/\ Len(sent) <= nfold + 1
          /\ \A i \in 1..Len(sent) : sent[i] = Batches[i]
          /\ Concat(sent) = SubSeq(rsids, 1, Len(Concat(sent))))

C8_Witness ==
    /\ pc = "aborted"
    /\ nfold = 1
    /\ Len(Batches) = 2
    /\ outdir = {}

\* C9: two complete runs on the same input lines against the same entries
\* of the service leave the same text in every output file, whatever the
\* order of the mappings in the responses and the number of retries.
C9_SameFiles == (run = 2 /\ pc = "done") => outdir = prevdir

C9_Witness ==
    /\ run = 2
    /\ pc = "done"
    /\ ambig_rows # {}
    /\ Cardinality(found) = 2

(***************************************************************************)
(* The mapping extractor on the names and descriptors the service may send *)
(***************************************************************************)

\* seq_region_name values: "1", "22", "X", "Y", "MT", "mt", "Mt", "m",
\* "chr7", "chrM", "chrMT", "CHRX", "MtDNA", "chrchr1".
ChromNames ==
    { << "1" >>, << "2", "2" >>, << "X" >>, << "Y" >>,
      << "M", "T" >>, << "m", "t" >>, << "M", "t" >>, << "m" >>,
      << "c", "h", "r", "7" >>, << "c", "h", "r", "M" >>,
      << "c", "h", "r", "M", "T" >>, << "C", "H", "R", "X" >>,
      << "M", "t", "D", "N", "A" >>,
      << "c", "h", "r", "c", "h", "r", "1" >> }

\* allele_string values: "", "A", "A/G", "A/G/T", "A/G/G".
AlleleStrings ==
    { << >>, StrA, StrAG, StrAGT, << "A", "/", "G", "/", "G" >> }

\* Mappings that entries with two mappings are made of: two alternates, a
\* single allele on another chromosome, a lower position, the other
\* assembly, and a second spelling of the chromosome of the first.
PairMappings ==
    { Mapping("GRCh38", Some(Chr7), Some(12), Some(StrAGT)),
      Mapping("GRCh38", Some(StrMT), Some(5), Some(StrC)),
      Mapping("GRCh38", Some(Chr7), Some(5), Some(StrAG)),
      Mapping("GRCh37", Some(Chr7), Some(5), Some(StrAG)),
      Mapping("GRCh38", Some(<< "7" >>), Some(12), Some(<< "A", "/", "T" >>)) }

\* No entry, an empty entry, an error entry, the entries with one mapping,
\* any field of which may lack, and the entries with two mappings.
ParseEntries ==
    { Entry("entry", << m1, m2 >>) : m1 \in PairMappings, m2 \in PairMappings }
    \cup
    { Entry("absent", << >>), Entry("empty", << >>), Entry("error", << >>) }
    \cup
    { Entry("entry", << Mapping(asm, chrom, start, alleles) >>) :
        asm \in { "GRCh38", "GRCh37" },
        chrom \in { None } \cup { Some(c) : c \in ChromNames },
        start \in { None, Some(0), Some(5) },
        alleles \in { None } \cup { Some(a) : a \in AlleleStrings } }

\* One identifier, one batch, and any of the entries above for it.
InitParse ==
    /\ lines = << << "r", "s", "1", "\n" >> >>
    /\ batch = 1
    /\ service \in [ IdsOf(lines) -> ParseEntries ]
    /\ run = 1
    /\ prevdir = {}
    /\ Fresh

SpecParse == InitParse /\ [][Next]_vars

\* The chromosome names of a CoordinateTuple: 1..22, X, Y, M.
CanonChroms == { IntStr(n) : n \in 1..22 } \cup { << "X" >>, << "Y" >>, << "M" >> }

\* The chromosome field of the rows of rsid_to_coord.tsv.
RowChroms == { Split(row, "\t")[2] : row \in coord_rows }

\* C10: every chromosome of a tuple parse_grch38_mappings returns, hence of
\* every row, is one of 1..22, X, Y, M, whatever seq_region_name the service
\* sends.
C10_ChromCanonical == RowChroms \subseteq CanonChroms

\* A mapping of the target assembly with a chromosome, a position and an
\* allele descriptor: a field that is absent, empty or zero is lacking.
HasAllFields(m) ==
    /\ m.assembly_name = "GRCh38"
    /\ m.seq_region_name # None /\ m.seq_region_name[1] # << >>
    /\ m.start # None /\ m.start[1] # 0
    /\ m.allele_string # None /\ m.allele_string[1] # << >>

\* The tuples C11 names for one mapping REF/ALT1/.../ALTk: one per alternate
\* token, or the self-pair when there is none.
ClaimedTuples(m) ==
    LET tokens == Split(m.allele_string[1], "/")
        k      == Len(tokens) - 1
        chrom  == normalize_chr(m.seq_region_name[1])
    IN IF k = 0
       THEN { << chrom, m.start[1], tokens[1], tokens[1] >> }
       ELSE { << chrom, m.start[1], tokens[1], tokens[j + 1] >> : j \in 1..k }

ClaimedResult(ms) ==
    UNION { IF HasAllFields(ms[i]) THEN ClaimedTuples(ms[i]) ELSE {} :
              i \in 1..Len(ms) }

\* The identifier the for loop of line 169 handled last.
LastFolded == rsids[Min(nfold * batch, Len(rsids))]

\* C11: the list parse_grch38_mappings returns for an entry holds exactly
\* the tuples (chrom, pos, REF, ALTi) of the GRCh38 mappings that have all
\* three fields, the self-pair (chrom, pos, REF, REF) for a descriptor
\* without alternate, nothing for the other mappings; it has no duplicate
\* and is in ascending tuple order.
C11_ParseResult ==
    (nfold >= 1 /\ ~Unusable(service[LastFolded])) =>
        /\ { mappings[i] : i \in 1..Len(mappings) }
               = ClaimedResult(service[LastFolded].mappings)
        /\ \A i, j \in 1..Len(mappings) :
               i < j => TupleLess(mappings[i], mappings[j])

C11_Witness ==
    /\ nfold = 1
    /\ Len(service[LastFolded].mappings) = 2
    /\ Len(mappings) = 3
    /\ \E i \in 1..3 : mappings[i][3] = mappings[i][4]


\* ---------------------------------------------------------------------
\* The backoff schedule of one batch
\* ---------------------------------------------------------------------

\* post_variation_batch is in progress, has slept, and none of its sleeps
\* was given a retry_after.
UnsignalledSleeps ==
    /\ pc \in { "post", "again" }
    /\ nsleep >= 1
    /\ ~signalled

\* C12 as stated: when the failing responses carry no retry-after signal,
\* the sleeps of one batch are 0.25 s after the first failure and twice the
\* previous sleep after every later one, capped at 10 s, and the sequence
\* starts again at 0.25 s for each batch: the sleep after the i-th failure
\* of a batch lasts min(10, 0.25 * 2^(i-1)) seconds.
C12_SeededAtQuarterSecond ==
    UnsignalledSleeps => delay = Min(CapMs, SeedMs * (2 ^ (nsleep - 1)))

\* C12, amended: when the failing responses carry no retry-after signal,
\* the sleep after the first failure of a batch lasts 0.5 s, every later
\* sleep of that batch lasts twice the previous one, and no sleep exceeds
\* 10 s; the sequence starts again at 0.5 s for each batch, so that the
\* sleep after the i-th failure lasts 0.25 * 2^i seconds.
C12_SeededAtHalfSecond ==
    /\ [](UnsignalledSleeps =>
            /\ delay = SeedMs * (2 ^ nsleep)
            /\ delay <= CapMs
            /\ nsleep = 1 => delay = 2 * SeedMs)
    /\ [][(UnsignalledSleeps /\ UnsignalledSleeps' /\ nsleep' = nsleep + 1)
              => delay' = 2 * delay]_vars

\* The second batch of a run has slept after five unsignalled failures, the
\* last time for 8 s.
C12_Witness ==
    /\ UnsignalledSleeps
    /\ nfold = 1
    /\ nsleep = DefaultMaxRetries
    /\ delay = 8 * 1000

====
